---- MODULE Spec2Model ----
(***************************************************************************)
(* AI Compound Analyzer: the React client (App, CompoundInput,             *)
(* SMILESValidator, CompareMode, MoleculeViewer, CompoundAnalyzerAPI) and  *)
(* the analysis engine it talks to.                                        *)
(*                                                                         *)
(* A JavaScript string is a sequence of one-character strings, so that     *)
(* trim, length, includes and the regular expressions are computed.  A     *)
(* fixed user-visible message is a one-element sequence holding the whole  *)
(* message: it is non-empty (truthy) and distinct from every other         *)
(* message.  A nullable value is None (<<>>) or Some(v) (<<v>>).           *)
(***************************************************************************)
EXTENDS Integers, Sequences, FiniteSets, TLC

None == <<>>
Some(v) == <<v>>
IsSome(o) == Len(o) = 1
Val(o) == o[1]

----------------------------------------------------------------------------
(* Bounds of the model *)

\* handleAnalyze invocations in one run
MaxCalls == 2
\* comparisons (handleCompare / handleCompareSpecific invocations) in one run
MaxCmps == 1
\* comparisons, and the handleAnalyze calls they make, in one run of the
\* Compare tab used through its buttons alone
MaxCompares == 2
MaxCompareCalls == 4
\* copies made in one CompoundInfo
MaxCopies == 3
\* writes of localStorage['darkMode'] kept
MaxWrites == 6
\* health checks started (the one at mount and the interval's ticks)
MaxChecks == 2
\* matches of one functional-group pattern in a molecule
MaxMatches == 2
\* length of the texts validateSMILES and isSMILESLike are applied to
MaxLen == 4

----------------------------------------------------------------------------
(* Strings *)

Letters ==
    {"a", "b", "c", "d", "e", "f", "g", "h", "i", "j", "k", "l", "m",
     "n", "o", "p", "q", "r", "s", "t", "u", "v", "w", "x", "y", "z",
     "A", "B", "C", "D", "E", "F", "G", "H", "I", "J", "K", "L", "M",
     "N", "O", "P", "Q", "R", "S", "T", "U", "V", "W", "X", "Y", "Z"}
Digits == {"0", "1", "2", "3", "4", "5", "6", "7", "8", "9"}
\* the symbols of /^[A-Za-z0-9@+\-\[\]()=#:/.\\%]+$/
SmilesSymbols == {"@", "+", "-", "[", "]", "(", ")", "=", "#", ":", "/", ".", "\\", "%"}
\* WhiteSpace and LineTerminator of ECMAScript, the 25 code units
\* String.prototype.trim strips: tab, LF, VT, FF, CR, space, NBSP, U+1680,
\* U+2000 to U+200A, U+2028, U+2029, U+202F, U+205F, U+3000 and U+FEFF.  A
\* character outside ASCII is written as its JavaScript escape (the six
\* characters \uXXXX), in this set and in every text.
WhiteSpace ==
    {"\t", "\n", "", "\f", "\r", " ", "\\u00A0", "\\u1680",
     "\\u2000", "\\u2001", "\\u2002", "\\u2003",
     "\\u2004", "\\u2005", "\\u2006", "\\u2007",
     "\\u2008", "\\u2009", "\\u200A", "\\u2028",
     "\\u2029", "\\u202F", "\\u205F", "\\u3000", "\\uFEFF"}

\* String.prototype.trim
RECURSIVE TrimLeft(_)
TrimLeft(s) ==
    IF s = <<>> THEN <<>>
    ELSE IF Head(s) \in WhiteSpace THEN TrimLeft(Tail(s)) ELSE s

RECURSIVE TrimRight(_)
TrimRight(s) ==
    IF s = <<>> THEN <<>>
    ELSE IF s[Len(s)] \in WhiteSpace THEN TrimRight(SubSeq(s, 1, Len(s) - 1)) ELSE s

Trim(s) == TrimRight(TrimLeft(s))

\* (variant: the text tested without trimming it)
IsBlankUntrimmed(s) == s = <<>>

\* !s.trim()
IsBlank(s) == Trim(s) = <<>>

\* String.prototype.includes, for a one-character needle
Includes(s, ch) == \E i \in 1..Len(s) : s[i] = ch

\* (s.match(/ch/g) || []).length
CountOf(s, ch) == Cardinality({i \in 1..Len(s) : s[i] = ch})

\* s.includes(pair) for a two-character needle
IncludesPair(s, a, b) == \E i \in 1..(Len(s) - 1) : s[i] = a /\ s[i + 1] = b

\* /^[A-Za-z0-9@+\-\[\]()=#:/.\\%]+$/.test(s)
SmilesPattern(s) ==
    /\ Len(s) > 0
    /\ \A i \in 1..Len(s) : s[i] \in Letters \cup Digits \cup SmilesSymbols

\* the texts of the model
TEthanol == <<"e", "t", "h", "a", "n", "o", "l">>
TMethanol == <<"m", "e", "t", "h", "a", "n", "o", "l">>
\* the query template 'Analyze the geometry of morphine'
TTemplate ==
    <<"A", "n", "a", "l", "y", "z", "e", " ", "t", "h", "e", " ",
      "g", "e", "o", "m", "e", "t", "r", "y", " ", "o", "f", " ",
      "m", "o", "r", "p", "h", "i", "n", "e">>
TMorphine == <<"m", "o", "r", "p", "h", "i", "n", "e">>
TUnknown == <<"x", "y", "z">>
TUnbalanced == <<"C", "(", "(", "(">>
TUnbalancedSp == <<" ", "C", "(", "(", "(">>
TPropanol == <<"C", "C", "C", "O">>
\* a space and a tab: white space alone
TBlank == <<" ", "\t">>
SEthanol == <<"C", "C", "O">>
SMethanol == <<"C", "O">>
SMorphine == <<"C", "N", "1", "C", "C", "C", "2", "3", "C", "4", "C", "1", "C", "C",
               "5", "=", "C", "2", "C", "(", "=", "C", "(", "C", "=", "C", "5", ")",
               "O", ")", "O", "C", "3", "C", "(", "C", "=", "C", "4", ")", "O">>

----------------------------------------------------------------------------
(* Messages *)

MsgRefused == <<"Backend server is not running. Please start the Python backend.">>
MsgServerError == <<"Server error during analysis">>
MsgTimeout == <<"Analysis timeout - the compound may be too complex to process quickly">>
MsgGeneric == <<"Failed to analyze compound. Please try again.">>
MsgAnalysisFailed == <<"Analysis failed">>
MsgUnexpected == <<"Unexpected error occurred during analysis">>
MsgEnterBoth == <<"Please enter both compounds to compare">>
MsgCompareFailed == <<"Failed to analyze compounds for comparison">>
ErrUnbalancedParens == <<"Unbalanced parentheses">>
ErrUnbalancedBrackets == <<"Unbalanced square brackets">>
ErrNoAtoms == <<"No recognizable atom symbols found">>
ErrInvalidChars == <<"Contains invalid characters">>
ErrDoubleDots == <<"Double dots are not valid in SMILES">>
ErrDoubleDashes == <<"Double dashes are not valid in SMILES">>
ErrEmpty == <<"SMILES string is empty">>
\* the engine's messages
MsgUnknownCompound == <<"UnknownCompoundError: compound not recognised">>
MsgSyntaxParens == <<"SyntaxError: unbalanced parentheses">>
MsgSyntaxBrackets == <<"SyntaxError: unbalanced square brackets">>
MsgSyntaxChars == <<"SyntaxError: invalid character">>
MsgValence == <<"ValenceError: not a valid molecule">>

----------------------------------------------------------------------------
(* SMILESValidator and CompoundInput: the pure parts *)

\* /[CNOSPFClBrI]/.test(s): a character class
AtomClass == {"C", "N", "O", "S", "P", "F", "l", "B", "r", "I"}

\* (variant: the balance checks report only an excess of opening symbols)
ValidateErrorsExcessOnly(smilesString) ==
    LET trimmed == Trim(smilesString) IN
    IF Len(trimmed) = 0 THEN <<ErrEmpty>>
    ELSE
      (IF CountOf(trimmed, "(") > CountOf(trimmed, ")") THEN <<ErrUnbalancedParens>> ELSE <<>>)
      \o (IF CountOf(trimmed, "[") > CountOf(trimmed, "]") THEN <<ErrUnbalancedBrackets>> ELSE <<>>)
      \o (IF ~(\E i \in 1..Len(trimmed) : trimmed[i] \in AtomClass) THEN <<ErrNoAtoms>> ELSE <<>>)
      \o (IF ~SmilesPattern(trimmed) THEN <<ErrInvalidChars>> ELSE <<>>)
      \o (IF IncludesPair(trimmed, ".", ".") THEN <<ErrDoubleDots>> ELSE <<>>)
      \o (IF IncludesPair(trimmed, "-", "-") THEN <<ErrDoubleDashes>> ELSE <<>>)

\* the errors validateSMILES pushes, in order
ValidateErrors(smilesString) ==
    LET trimmed == Trim(smilesString) IN
    IF Len(trimmed) = 0 THEN <<ErrEmpty>>
    ELSE
      (IF CountOf(trimmed, "(") # CountOf(trimmed, ")") THEN <<ErrUnbalancedParens>> ELSE <<>>)
      \o (IF CountOf(trimmed, "[") # CountOf(trimmed, "]") THEN <<ErrUnbalancedBrackets>> ELSE <<>>)
      \o (IF ~(\E i \in 1..Len(trimmed) : trimmed[i] \in AtomClass) THEN <<ErrNoAtoms>> ELSE <<>>)
      \o (IF ~SmilesPattern(trimmed) THEN <<ErrInvalidChars>> ELSE <<>>)
      \o (IF IncludesPair(trimmed, ".", ".") THEN <<ErrDoubleDots>> ELSE <<>>)
      \o (IF IncludesPair(trimmed, "-", "-") THEN <<ErrDoubleDashes>> ELSE <<>>)

validateSMILES(smilesString) ==
    LET errors == ValidateErrors(smilesString) IN
    [isValid |-> Len(errors) = 0, errors |-> errors]

isSMILESLike(text) ==
    /\ SmilesPattern(Trim(text))
    /\ Includes(text, "C")
    /\ Len(text) > 3
    /\ ~Includes(text, " ")

----------------------------------------------------------------------------
(* The analysis engine (the backend the client posts to) *)

ToLower(ch) ==
    CASE ch = "A" -> "a" [] ch = "B" -> "b" [] ch = "C" -> "c" [] ch = "D" -> "d"
      [] ch = "E" -> "e" [] ch = "F" -> "f" [] ch = "G" -> "g" [] ch = "H" -> "h"
      [] ch = "I" -> "i" [] ch = "J" -> "j" [] ch = "K" -> "k" [] ch = "L" -> "l"
      [] ch = "M" -> "m" [] ch = "N" -> "n" [] ch = "O" -> "o" [] ch = "P" -> "p"
      [] ch = "Q" -> "q" [] ch = "R" -> "r" [] ch = "S" -> "s" [] ch = "T" -> "t"
      [] ch = "U" -> "u" [] ch = "V" -> "v" [] ch = "W" -> "w" [] ch = "X" -> "x"
      [] ch = "Y" -> "y" [] ch = "Z" -> "z"
      [] OTHER -> ch

LowerCase(s) == [i \in 1..Len(s) |-> ToLower(s[i])]

\* needle occurs in s as a substring
Contains(s, needle) ==
    \E i \in 1..(Len(s) - Len(needle) + 1) : SubSeq(s, i, i + Len(needle) - 1) = needle

\* the name -> SMILES lookup table, in table order
NameTable ==
    << [name |-> TEthanol, smiles |-> SEthanol],
       [name |-> TMethanol, smiles |-> SMethanol],
       [name |-> TMorphine, smiles |-> SMorphine] >>

\* the SMILES-token heuristic of the Input Resolver
SmilesHeuristic(t) ==
    /\ SmilesPattern(t)
    /\ Includes(t, "C")
    /\ ~Includes(t, " ")
    /\ Len(t) > 3

\* Input Resolver: raw text -> canonical SMILES or UnknownCompoundError.
\* A literal SMILES stands for itself; a name is matched against the aliases
\* without regard to case, exactly first and then as a substring of the text.
\* Of several aliases found inside the text the longest is taken, and of
\* equally long ones the first of the table
Resolve(raw) ==
    LET t == Trim(raw)
        lower == LowerCase(t)
        exact == {i \in 1..Len(NameTable) : NameTable[i].name = lower}
        hits == {i \in 1..Len(NameTable) : Contains(lower, NameTable[i].name)}
        Before(j, k) ==
            \/ Len(NameTable[j].name) > Len(NameTable[k].name)
            \/ Len(NameTable[j].name) = Len(NameTable[k].name) /\ j <= k
    IN  IF SmilesHeuristic(t) THEN [ok |-> TRUE, smiles |-> t]
        ELSE IF exact # {}
             THEN [ok |-> TRUE, smiles |-> NameTable[CHOOSE j \in exact : TRUE].smiles]
        ELSE IF hits # {}
             THEN LET i == CHOOSE j \in hits : \A k \in hits : Before(j, k)
                  IN  [ok |-> TRUE, smiles |-> NameTable[i].smiles]
             ELSE [ok |-> FALSE, smiles |-> <<>>]

\* the display name of a record: derived from the canonical SMILES (the alias
\* of the lookup table, the SMILES itself when the table has none), never from
\* the identifier the request carried
DisplayName(smiles) ==
    LET rows == {i \in 1..Len(NameTable) : NameTable[i].smiles = smiles}
    IN  IF rows = {} THEN smiles
        ELSE NameTable[CHOOSE j \in rows : \A k \in rows : j <= k].name

\* MolecularProperties of the molecules the parser accepts (Descriptor Calculator)
Props(mw, logP, hbd, hba, rot, psa) ==
    [molecularWeight |-> mw, logP |-> logP, hbondDonors |-> hbd,
     hbondAcceptors |-> hba, rotatablebonds |-> rot, polarSurfaceArea |-> psa]

\* logP is held in tenths (4.5 is 45); the other descriptors in whole units
MoleculeTable ==
    << [smiles |-> SEthanol, properties |-> Props(46, 0, 1, 1, 0, 20)],
       [smiles |-> SMethanol, properties |-> Props(32, -4, 1, 1, 0, 20)],
       [smiles |-> TPropanol, properties |-> Props(60, 3, 1, 1, 1, 20)],
       [smiles |-> SMorphine, properties |-> Props(285, 12, 2, 4, 0, 53)] >>

\* Molecular Graph Parser: structural validation first, then the graph
Parse(smiles) ==
    IF CountOf(smiles, "(") # CountOf(smiles, ")")
      THEN [ok |-> FALSE, error |-> MsgSyntaxParens, mol |-> 0]
    ELSE IF CountOf(smiles, "[") # CountOf(smiles, "]")
      THEN [ok |-> FALSE, error |-> MsgSyntaxBrackets, mol |-> 0]
    ELSE IF ~SmilesPattern(smiles)
      THEN [ok |-> FALSE, error |-> MsgSyntaxChars, mol |-> 0]
    ELSE IF \E i \in 1..Len(MoleculeTable) : MoleculeTable[i].smiles = smiles
      THEN [ok |-> TRUE, error |-> <<>>,
            mol |-> CHOOSE i \in 1..Len(MoleculeTable) : MoleculeTable[i].smiles = smiles]
    ELSE [ok |-> FALSE, error |-> MsgValence, mol |-> 0]

\* Rule Evaluator
\* (variant: the molecular-weight test made inclusive)
LipinskiViolationsInclusive(p) ==
    (IF p.molecularWeight >= 500 THEN 1 ELSE 0)
    + (IF p.logP > 50 THEN 1 ELSE 0)
    + (IF p.hbondDonors > 5 THEN 1 ELSE 0)
    + (IF p.hbondAcceptors > 10 THEN 1 ELSE 0)

LipinskiViolations(p) ==
    (IF p.molecularWeight > 500 THEN 1 ELSE 0)
    + (IF p.logP > 50 THEN 1 ELSE 0)
    + (IF p.hbondDonors > 5 THEN 1 ELSE 0)
    + (IF p.hbondAcceptors > 10 THEN 1 ELSE 0)

VeberViolations(p) ==
    (IF p.rotatablebonds > 10 THEN 1 ELSE 0)
    + (IF p.polarSurfaceArea > 140 THEN 1 ELSE 0)

\* (variant: the logP window as wide as the Lipinski test)
LeadLikenessWide(p) ==
    /\ p.molecularWeight <= 450
    /\ -10 <= p.logP
    /\ p.logP <= 55
    /\ p.rotatablebonds <= 7

LeadLikeness(p) ==
    /\ p.molecularWeight <= 450
    /\ -10 <= p.logP
    /\ p.logP <= 45
    /\ p.rotatablebonds <= 7

\* (variant: no violation tolerated)
DrugLikenessStrict(p) == LipinskiViolations(p) < 1

DrugLikeness(p) == LipinskiViolations(p) <= 1

RuleEvaluator(p) ==
    [lipinskiViolations |-> LipinskiViolations(p),
     veberViolations |-> VeberViolations(p),
     leadLikeness |-> LeadLikeness(p),
     drugLikeness |-> DrugLikeness(p)]

\* Conformer Generator: the seed of an embedding attempt is derived from the
\* canonical SMILES (and the attempt), never from the request
\* (variant: the seed drawn from a counter the requests share)
EmbeddingSeedPerRequest(req, smiles, attempt) == <<smiles, attempt + req>>

EmbeddingSeed(req, smiles, attempt) == <<smiles, attempt>>

\* the embeddings whose minimisation does not converge
NonConverging == {<<SMethanol, 1>>, <<TPropanol, 1>>, <<TPropanol, 2>>}
Converges(seed) == seed \notin NonConverging

\* the serialized structure block of a converged embedding
MolBlock(smiles, seed) == <<"MOL", smiles, seed>>

\* Functional Group Detector: the fixed table of named patterns, in table order
PatternTable ==
    << "hydroxyl", "carboxyl", "carbonyl", "amine", "amide", "ester", "ether",
       "phenyl", "methyl", "nitro", "sulfonate", "phosphate" >>

\* the sequence of n copies of name
RECURSIVE Repeated(_, _)
Repeated(name, n) == IF n <= 0 THEN <<>> ELSE <<name>> \o Repeated(name, n - 1)

\* (variant: a name is appended for every match of its pattern)
RECURSIVE DetectPerMatchFrom(_, _)
DetectPerMatchFrom(i, m) ==
    IF i > Len(PatternTable) THEN <<>>
    ELSE Repeated(PatternTable[i], m[PatternTable[i]]) \o DetectPerMatchFrom(i + 1, m)

FunctionalGroupsPerMatch(m) == DetectPerMatchFrom(1, m)

\* the patterns from the i-th on are matched in table order; a pattern that
\* matches, however often, contributes its name once
RECURSIVE DetectFrom(_, _)
DetectFrom(i, m) ==
    IF i > Len(PatternTable) THEN <<>>
    ELSE (IF m[PatternTable[i]] > 0 THEN <<PatternTable[i]>> ELSE <<>>)
           \o DetectFrom(i + 1, m)

\* Functional Group Detector: m gives, for each pattern, the number of its
\* matches in the molecule
FunctionalGroups(m) == DetectFrom(1, m)

\* Analysis Assembler
Assemble(res, mol, block) ==
    [smiles |-> res.smiles,
     name |-> DisplayName(res.smiles),
     properties |-> MoleculeTable[mol].properties,
     drugLikeness |-> RuleEvaluator(MoleculeTable[mol].properties),
     structure3D |-> block]

SuccessBody(data) == [success |-> TRUE, data |-> Some(data), error |-> None]
FailureBody(msg) == [success |-> FALSE, data |-> None, error |-> Some(msg)]

----------------------------------------------------------------------------
(* CompoundAnalyzerAPI.analyzeCompound *)

\* How axios.post settles.  kind "response": the request completed with an
\* HTTP status and a body (axios resolves for 2xx and rejects otherwise);
\* kind "error": no response, an AxiosError with the code given; kind
\* "exception": something that is no AxiosError was thrown.
\* The body is response.data: Some(the JSON object), Some(JsonNull) for the
\* JSON text null, or None for a response without a JSON body, where axios
\* gives the text it received ('' for an empty body); every property read
\* of such a text is undefined.
JsonNull == [null |-> TRUE]
HttpResponse(status, body) ==
    [kind |-> "response", status |-> status, body |-> body,
     code |-> IF status >= 500 THEN "ERR_BAD_RESPONSE" ELSE "ERR_BAD_REQUEST"]
AxiosError(code) == [kind |-> "error", status |-> 0, body |-> None, code |-> code]
NonAxiosException == [kind |-> "exception", status |-> 0, body |-> None, code |-> "none"]

\* axios' default validateStatus
Is2xx(status) == status >= 200 /\ status < 300

\* a || b on strings
OrElse(a, b) == IF a # <<>> THEN a ELSE b

\* error.response.data?.error
BodyError(body) ==
    IF IsSome(body) /\ Val(body) # JsonNull /\ IsSome(Val(body).error)
      THEN Val(Val(body).error) ELSE <<>>

\* (variant: the 500 branch without its || 'Server error during analysis')
analyzeCompoundNoFallback(o) ==
    IF o.kind = "response" /\ Is2xx(o.status) THEN o.body
    ELSE IF o.kind # "exception" /\ o.code = "ECONNREFUSED"
      THEN Some(FailureBody(MsgRefused))
    ELSE IF o.kind = "response" /\ o.status = 500
      THEN Some(FailureBody(BodyError(o.body)))
    ELSE IF o.kind # "exception" /\ o.code = "ECONNABORTED"
      THEN Some(FailureBody(MsgTimeout))
    ELSE Some(FailureBody(MsgGeneric))

\* the value the promise of analyzeCompound resolves to: response.data of a
\* 2xx response, an AnalysisResponse built by the catch block otherwise
analyzeCompound(o) ==
    IF o.kind = "response" /\ Is2xx(o.status) THEN o.body
    ELSE IF o.kind # "exception" /\ o.code = "ECONNREFUSED"
      THEN Some(FailureBody(MsgRefused))
    ELSE IF o.kind = "response" /\ o.status = 500
      THEN Some(FailureBody(OrElse(BodyError(o.body), MsgServerError)))
    ELSE IF o.kind # "exception" /\ o.code = "ECONNABORTED"
      THEN Some(FailureBody(MsgTimeout))
    ELSE Some(FailureBody(MsgGeneric))

\* (variant: the catch block posts again)
RetriesAfterFailure(o) == ~(o.kind = "response" /\ Is2xx(o.status))

\* analyzeCompound has no retry: every branch of the catch block returns
RetriesAfter(o) == FALSE

\* (variant: every successful status counts as healthy)
healthCheckAny2xx(o) == o.kind = "response" /\ Is2xx(o.status)

\* CompoundAnalyzerAPI.healthCheck
healthCheck(o) ==
    IF o.kind = "response" /\ Is2xx(o.status) THEN o.status = 200 ELSE FALSE

----------------------------------------------------------------------------
(* App.handleAnalyze: what it does with the response *)

\* response.success && response.data (reading a property of null throws:
\* nothing is accepted)
Accepts(r) == IsSome(r) /\ Val(r) # JsonNull /\ Val(r).success /\ IsSome(Val(r).data)

\* the value handleAnalyze returns: Some(data) or None (null)
ResultOf(r) == IF Accepts(r) THEN Val(r).data ELSE None

\* the message handleAnalyze stores when it does not accept the response:
\* response.error || 'Analysis failed', where a response without a JSON body
\* has no error property; reading response.success of null throws in the try
\* block and the catch stores its own message
ErrorOf(r) ==
    IF r = Some(JsonNull) THEN MsgUnexpected
    ELSE IF ~IsSome(r) THEN MsgAnalysisFailed
    ELSE OrElse(IF IsSome(Val(r).error) THEN Val(Val(r).error) ELSE <<>>, MsgAnalysisFailed)

----------------------------------------------------------------------------
(* MoleculeViewer *)

\* the viewer effect: the 3D model it creates for molBlock, if any
ViewerEffect(lib, molBlock) ==
    IF ~lib \/ molBlock = <<>> THEN None ELSE Some(molBlock)

\* {!molBlock && ...}: the 'No Structure to Display' placeholder
ShowsPlaceholder(molBlock) == molBlock = <<>>

----------------------------------------------------------------------------
(* CompoundInput: the compounds it offers *)

\* compoundCategories lists the same 22 names under eight headings
EXAMPLE_COMPOUNDS ==
    << <<"a", "s", "p", "i", "r", "i", "n">>,
       <<"i", "b", "u", "p", "r", "o", "f", "e", "n">>,
       <<"p", "a", "r", "a", "c", "e", "t", "a", "m", "o", "l">>,
       <<"n", "a", "p", "r", "o", "x", "e", "n">>,
       <<"c", "a", "f", "f", "e", "i", "n", "e">>,
       <<"n", "i", "c", "o", "t", "i", "n", "e">>,
       <<"m", "e", "t", "h", "a", "m", "p", "h", "e", "t", "a", "m", "i", "n", "e">>,
       <<"c", "o", "c", "a", "i", "n", "e">>,
       <<"l", "s", "d">>,
       <<"t", "h", "c">>,
       <<"m", "o", "r", "p", "h", "i", "n", "e">>,
       <<"c", "o", "d", "e", "i", "n", "e">>,
       <<"p", "e", "n", "i", "c", "i", "l", "l", "i", "n">>,
       <<"a", "m", "o", "x", "i", "c", "i", "l", "l", "i", "n">>,
       <<"a", "d", "r", "e", "n", "a", "l", "i", "n", "e">>,
       <<"e", "p", "i", "n", "e", "p", "h", "r", "i", "n", "e">>,
       <<"m", "e", "t", "f", "o", "r", "m", "i", "n">>,
       <<"e", "t", "h", "a", "n", "o", "l">>,
       <<"a", "c", "e", "t", "o", "n", "e">>,
       <<"c", "h", "l", "o", "r", "o", "f", "o", "r", "m">>,
       <<"c", "i", "t", "r", "i", "c", " ", "a", "c", "i", "d">>,
       <<"g", "l", "u", "c", "o", "s", "e">> >>

\* (variant: the query compared as typed)
getSuggestionsAsTyped(q) ==
    IF IsBlank(q) THEN <<>>
    ELSE
      LET matching == SelectSeq(EXAMPLE_COMPOUNDS,
                        LAMBDA compound : \/ Contains(LowerCase(compound), q)
                                          \/ Contains(q, LowerCase(compound)))
      IN  SubSeq(matching, 1, IF Len(matching) < 5 THEN Len(matching) ELSE 5)

\* getSuggestions for the query q: filter(...).slice(0, 5)
getSuggestions(q) ==
    IF IsBlank(q) THEN <<>>
    ELSE
      LET queryLower == LowerCase(q)
          matching == SelectSeq(EXAMPLE_COMPOUNDS,
                        LAMBDA compound : \/ Contains(LowerCase(compound), queryLower)
                                          \/ Contains(queryLower, LowerCase(compound)))
      IN  SubSeq(matching, 1, IF Len(matching) < 5 THEN Len(matching) ELSE 5)

----------------------------------------------------------------------------
(* State *)

VARIABLES
    \* App
    analysis,        \* None or Some(CompoundAnalysis)
    isLoading,
    error,           \* None or Some(message)
    activeTab,       \* "analyze", "compare" or "templates"
    \* the handleAnalyze invocations and their POSTs
    calls,
    ncalls,
    \* the engine's work on each request
    srv,
    \* CompoundInput
    query,
    isValidSMILES,
    showCompoundList,
    \* CompareMode
    compound1,
    compound2,
    analysis1,
    analysis2,
    cmpError,
    cmps,
    ncmp,
    \* the Analyze tab's MoleculeViewer
    has3Dmol,        \* window.$3Dmol is loaded
    viewer,          \* None or Some(the model added for the current molBlock)
    \* App's backend status polling
    backendStatus,   \* None (null, 'Checking...') or Some(boolean)
    checks,          \* the calls of checkBackendStatus
    nchecks,
    mounted,         \* App is mounted: its interval is running
    \* the Rule Evaluator applied to a MolecularProperties value
    props,
    rules,
    \* a pure function applied to an input
    input,
    output,
    \* CompoundInfo: the field shown as copied, the copies made, the 2 s timers set
    copiedField, copies, timers,
    \* App's dark mode, what it wrote to localStorage['darkMode'] (the last
    \* entry is the stored value), the operating system's colour scheme
    darkMode, written, prefersDark

appVars == <<analysis, isLoading, error, activeTab>>
callVars == <<calls, ncalls, srv>>
inputVars == <<query, isValidSMILES, showCompoundList>>
compareVars == <<compound1, compound2, analysis1, analysis2, cmpError, cmps, ncmp>>
viewerVars == <<has3Dmol, viewer>>
mainVars == <<appVars, callVars, inputVars, compareVars, viewerVars>>
healthVars == <<backendStatus, checks, nchecks, mounted>>
ruleVars == <<props, rules>>
pureVars == <<input, output>>
widgetVars == <<copiedField, copies, timers, darkMode, written, prefersDark>>
vars == <<mainVars, healthVars, ruleVars, pureVars, widgetVars>>

\* Boolean.prototype.toString
BoolString(b) == IF b THEN "true" ELSE "false"

\* the initialiser of darkMode: localStorage.getItem('darkMode') === 'true'
\* || window.matchMedia('(prefers-color-scheme: dark)').matches
InitialDarkMode(item, prefers) == item = Some("true") \/ prefers

CopyIds == 1..MaxCopies

CallIds == 1..MaxCompareCalls
CmpIds == 1..MaxCompares
CheckIds == 1..MaxChecks

Tabs == {"analyze", "compare", "templates"}

\* what the user can put in the Analyze box
FormTexts == {TPropanol, TUnbalanced, TUnbalancedSp, TUnknown, TBlank}
\* `Analyze the structure and properties of ${compound}`
ExampleQuery(compound) ==
    <<"A", "n", "a", "l", "y", "z", "e", " ", "t", "h", "e", " ",
      "s", "t", "r", "u", "c", "t", "u", "r", "e", " ", "a", "n", "d", " ",
      "p", "r", "o", "p", "e", "r", "t", "i", "e", "s", " ", "o", "f", " ">> \o compound

\* const suggestions = getSuggestions(): what each render computes from the
\* query, for the texts the query can hold
suggestions ==
    [q \in FormTexts \cup {<<>>, EXAMPLE_COMPOUNDS[1], ExampleQuery(EXAMPLE_COMPOUNDS[1])}
        |-> getSuggestions(q)]

\* what the user can put in the Compare boxes
CompareTexts == {TEthanol, TPropanol, TUnbalanced, TBlank}
\* the statuses the backend may give a failure response
FailStatuses == {200, 400, 500}

FreeCall ==
    [st |-> "free", q |-> <<>>, outcome |-> None, resp |-> None, result |-> None,
     posts |-> 0, solo |-> FALSE, cmp |-> 0]

FreeSrv ==
    [phase |-> "none", raw |-> <<>>, smiles |-> <<>>, mol |-> 0,
     attempts |-> 0, status |-> 0, body |-> None]

FreeCmp == [st |-> "none", c1 |-> <<>>, c2 |-> <<>>, a |-> 0, b |-> 0, live |-> FALSE]

FreeCheck == [st |-> "free", outcome |-> None, ret |-> FALSE]

\* how the GET /health may settle
HealthOutcomes ==
    {HttpResponse(s, None) : s \in {200, 204, 404, 500}}
      \cup {AxiosError("ECONNABORTED"), AxiosError("ECONNREFUSED"), NonAxiosException}

\* the MolecularProperties values the Rule Evaluator is applied to: both sides
\* of every threshold (logP in tenths)
PropertyValues ==
    {Props(mw, lp, hbd, hba, rot, psa) :
        mw \in {450, 451, 500, 501}, lp \in {-11, -10, 45, 46, 50, 51},
        hbd \in {5, 6}, hba \in {10, 11}, rot \in {7, 8, 10, 11}, psa \in {140, 141}}

Init ==
    /\ analysis = None
    /\ isLoading = FALSE
    /\ error = None
    /\ activeTab = "analyze"
    /\ calls = [c \in CallIds |-> FreeCall]
    /\ ncalls = 0
    /\ srv = [c \in CallIds |-> FreeSrv]
    /\ query = <<>>
    /\ isValidSMILES = TRUE
    /\ showCompoundList = FALSE
    /\ compound1 = <<>>
    /\ compound2 = <<>>
    /\ analysis1 = None
    /\ analysis2 = None
    /\ cmpError = None
    /\ cmps = [k \in CmpIds |-> FreeCmp]
    /\ ncmp = 0
    /\ has3Dmol \in BOOLEAN
    /\ viewer = None
    /\ backendStatus = None
    /\ checks = [h \in CheckIds |-> FreeCheck]
    /\ nchecks = 0
    /\ mounted = TRUE
    /\ props = None
    /\ rules = None
    /\ input = None
    /\ output = None
    /\ copiedField = None
    /\ copies = [i \in CopyIds |-> [st |-> "none", field |-> ""]]
    /\ timers = <<>>
    /\ prefersDark = FALSE
    /\ darkMode = InitialDarkMode(None, FALSE)
    /\ written = <<BoolString(InitialDarkMode(None, FALSE))>>

\* the model the Analyze tab's MoleculeViewer holds when the tab is `tab` and
\* App.analysis is `an`
ViewerFor(tab, an) ==
    IF tab = "analyze" /\ IsSome(an)
      THEN ViewerEffect(has3Dmol, Val(an).structure3D)
      ELSE None

Awaiting(c) == calls[c].st = "awaiting"

\* a finished call whose promise nobody waits for any more: its closure is
\* garbage, and the model forgets it when the next analysis begins
PastCall == [FreeCall EXCEPT !.st = "past"]
Returned(c) ==
    /\ calls[c].st = "done"
    /\ calls[c].cmp # 0 => cmps[calls[c].cmp].st = "settled"

----------------------------------------------------------------------------
(* App.handleAnalyze *)

\* handleAnalyze up to its await, once for each query of qs in turn (one
\* query from the form or a template, two from comparison k): the three
\* setters, then analyzeCompound posts { query: query.trim() }
BeginAnalysesIn(qs, k, maxCalls) ==
    LET new == (ncalls + 1)..(ncalls + Len(qs))
        alone == Len(qs) = 1 /\ \A c \in CallIds : ~Awaiting(c)
    IN
    /\ ncalls + Len(qs) <= maxCalls
    /\ isLoading' = TRUE
    /\ error' = None
    /\ analysis' = None
    /\ calls' = [c \in CallIds |->
          IF c \in new
            THEN [FreeCall EXCEPT !.st = "awaiting", !.q = qs[c - ncalls],
                                  !.posts = 1, !.solo = alone, !.cmp = k]
            ELSE IF Awaiting(c) THEN [calls[c] EXCEPT !.solo = FALSE]
            ELSE IF Returned(c) THEN PastCall
            ELSE calls[c]]
    /\ srv' = [c \in CallIds |->
          IF c \in new
            THEN [FreeSrv EXCEPT !.phase = "received", !.raw = Trim(qs[c - ncalls])]
            ELSE srv[c]]
    /\ ncalls' = ncalls + Len(qs)
    /\ viewer' = None

BeginAnalyses(qs, k) == BeginAnalysesIn(qs, k, MaxCalls)

\* (variant: the results taken in the order the calls finished)
CompareResultsAsFinished(k, c, res) ==
    << IF cmps[k].a = c THEN calls[cmps[k].b].result ELSE calls[cmps[k].a].result, res >>

\* Promise.all([onAnalyze(c1), onAnalyze(c2)]) of comparison k, resolved when
\* its last call c returns res: the results in the order of the promises
CompareResults(k, c, res) ==
    << IF cmps[k].a = c THEN res ELSE calls[cmps[k].a].result,
       IF cmps[k].b = c THEN res ELSE calls[cmps[k].b].result >>

\* The POST of call c settles with outcome o: the rest of analyzeCompound,
\* the rest of handleAnalyze (its finally included) and, when this was the
\* last call of a comparison, the rest of handleCompare / handleCompareSpecific.
\* srvNext is what becomes of the request at the backend.
Settle(c, o, srvNext) ==
    LET r == analyzeCompound(o)
        res == ResultOf(r)
        k == calls[c].cmp
        other == IF k = 0 THEN c ELSE IF cmps[k].a = c THEN cmps[k].b ELSE cmps[k].a
        last == k # 0 /\ calls[other].st = "done"
    IN
    /\ Awaiting(c)
    /\ IF RetriesAfter(o)
         THEN /\ calls' = [calls EXCEPT ![c].posts = @ + 1]
              /\ srv' = [srv EXCEPT ![c] = [FreeSrv EXCEPT !.phase = "received",
                                                           !.raw = srv[c].raw]]
              /\ UNCHANGED <<analysis, isLoading, error, analysis1, analysis2, cmps, viewer>>
         ELSE /\ analysis' = IF Accepts(r) THEN Val(r).data ELSE analysis
              /\ error' = IF Accepts(r) THEN error ELSE Some(ErrorOf(r))
              /\ isLoading' = FALSE
              /\ calls' = [calls EXCEPT ![c] = [@ EXCEPT !.st = "done", !.outcome = Some(o),
                                                         !.resp = r, !.result = res]]
              /\ srv' = [srv EXCEPT ![c] = srvNext]
              /\ IF last
                   THEN /\ cmps' = [cmps EXCEPT ![k].st = "settled"]
                        /\ IF cmps[k].live
                             THEN /\ analysis1' = CompareResults(k, c, res)[1]
                                  /\ analysis2' = CompareResults(k, c, res)[2]
                             ELSE UNCHANGED <<analysis1, analysis2>>
                   ELSE UNCHANGED <<analysis1, analysis2, cmps>>
              /\ viewer' = ViewerFor(activeTab, analysis')
    /\ UNCHANGED <<activeTab, ncalls, inputVars, compound1, compound2, cmpError, ncmp,
                   has3Dmol, healthVars, ruleVars, pureVars, widgetVars>>

\* the response of the backend arrives while the call is waiting for it
DeliverResponse(c) ==
    /\ srv[c].phase = "ready"
    /\ Settle(c, HttpResponse(srv[c].status, srv[c].body), [FreeSrv EXCEPT !.phase = "done"])

\* the request cannot be sent: connection refused, a network error, or an
\* exception that is no AxiosError; the backend never sees it
SendFails(c) ==
    /\ srv[c].phase = "received"
    /\ \E o \in {AxiosError("ECONNREFUSED"), AxiosError("ERR_NETWORK"), NonAxiosException} :
          Settle(c, o, FreeSrv)

\* timeout: 30000 -- axios aborts the request with ECONNABORTED; the backend
\* goes on with the abandoned request
Timeout(c) ==
    /\ srv[c].phase \in {"received", "conformer", "ready"}
    /\ Settle(c, AxiosError("ECONNABORTED"), srv[c])

\* what App.analysis is after the response of an abandoned (aborted) request
\* reaches the browser: nobody listens to it
AbandonedResponse(c) == analysis

LateResponse(c) ==
    /\ calls[c].st \in {"done", "past"}
    /\ srv[c].phase = "ready"
    /\ srv' = [srv EXCEPT ![c] = [FreeSrv EXCEPT !.phase = "done"]]
    /\ analysis' = AbandonedResponse(c)
    /\ viewer' = ViewerFor(activeTab, analysis')
    /\ UNCHANGED <<isLoading, error, activeTab, calls, ncalls, inputVars, compareVars,
                   has3Dmol, healthVars, ruleVars, pureVars, widgetVars>>

----------------------------------------------------------------------------
(* The backend's pipeline, one request at a time, requests interleaved *)

\* Input Resolver and Molecular Graph Parser: a failure aborts the pipeline
\* with a failure response, under some HTTP status
ServerParse(c) ==
    LET res == Resolve(srv[c].raw)
        pr == Parse(res.smiles)
    IN
    /\ srv[c].phase = "received"
    /\ \/ /\ ~res.ok
          /\ \E s \in FailStatuses :
                srv' = [srv EXCEPT ![c] = [@ EXCEPT !.phase = "ready", !.status = s,
                                           !.body = Some(FailureBody(MsgUnknownCompound))]]
       \/ /\ res.ok /\ ~pr.ok
          /\ \E s \in FailStatuses :
                srv' = [srv EXCEPT ![c] = [@ EXCEPT !.phase = "ready", !.status = s,
                                           !.body = Some(FailureBody(pr.error))]]
       \/ /\ res.ok /\ pr.ok
          /\ srv' = [srv EXCEPT ![c] = [@ EXCEPT !.phase = "conformer", !.smiles = res.smiles,
                                        !.mol = pr.mol]]
    /\ UNCHANGED <<appVars, calls, ncalls, inputVars, compareVars, viewerVars, healthVars,
                   ruleVars, pureVars, widgetVars>>

\* InternalError: an unexpected failure answers 500 without a JSON error
ServerInternalError(c) ==
    /\ srv[c].phase = "received"
    /\ srv' = [srv EXCEPT ![c] = [@ EXCEPT !.phase = "ready", !.status = 500, !.body = None]]
    /\ UNCHANGED <<appVars, calls, ncalls, inputVars, compareVars, viewerVars, healthVars,
                   ruleVars, pureVars, widgetVars>>

\* (variant: the generator re-embeds until the minimisation converges)
ServerEmbedUntilConverged(c) ==
    LET n == srv[c].attempts + 1
        seed == EmbeddingSeed(c, srv[c].smiles, n)
        res == [smiles |-> srv[c].smiles]
    IN
    /\ srv[c].phase = "conformer"
    /\ IF Converges(seed)
         THEN srv' = [srv EXCEPT ![c] = [@ EXCEPT !.phase = "ready", !.attempts = n,
                        !.status = 200,
                        !.body = Some(SuccessBody(Assemble(res, srv[c].mol,
                                                           MolBlock(srv[c].smiles, seed))))]]
         ELSE srv' = [srv EXCEPT ![c].attempts = n]
    /\ UNCHANGED <<appVars, calls, ncalls, inputVars, compareVars, viewerVars, healthVars,
                   ruleVars, pureVars, widgetVars>>

\* Conformer Generator: one embedding and minimisation attempt; the second
\* failure gives up, and the Assembler returns the record with an empty block
ServerEmbed(c) ==
    LET n == srv[c].attempts + 1
        seed == EmbeddingSeed(c, srv[c].smiles, n)
        res == [smiles |-> srv[c].smiles]
    IN
    /\ srv[c].phase = "conformer"
    /\ IF Converges(seed)
         THEN srv' = [srv EXCEPT ![c] = [@ EXCEPT !.phase = "ready", !.attempts = n,
                        !.status = 200,
                        !.body = Some(SuccessBody(Assemble(res, srv[c].mol,
                                                           MolBlock(srv[c].smiles, seed))))]]
         ELSE IF n >= 2
           THEN srv' = [srv EXCEPT ![c] = [@ EXCEPT !.phase = "ready", !.attempts = n,
                          !.status = 200,
                          !.body = Some(SuccessBody(Assemble(res, srv[c].mol, <<>>)))]]
           ELSE srv' = [srv EXCEPT ![c].attempts = n]
    /\ UNCHANGED <<appVars, calls, ncalls, inputVars, compareVars, viewerVars, healthVars,
                   ruleVars, pureVars, widgetVars>>

----------------------------------------------------------------------------
(* CompoundInput *)

\* setQuery(t), then the render: SMILESValidator is mounted only for a
\* SMILES-like query, and its effect reports validateSMILES(query).isValid
setQuery(t) ==
    /\ query' = t
    /\ isValidSMILES' = IF isSMILESLike(t) THEN validateSMILES(t).isValid ELSE isValidSMILES

\* the text input (disabled={isLoading}): onChange
TypeQuery(t) ==
    /\ activeTab = "analyze"
    /\ ~isLoading
    /\ t # query
    /\ setQuery(t)
    /\ UNCHANGED <<showCompoundList, appVars, callVars, compareVars, viewerVars, healthVars,
                   ruleVars, pureVars, widgetVars>>

\* the 'All Compounds' button (disabled={isLoading})
ToggleCompoundList ==
    /\ activeTab = "analyze"
    /\ ~isLoading
    /\ showCompoundList' = ~showCompoundList
    /\ UNCHANGED <<query, isValidSMILES, appVars, callVars, compareVars, viewerVars,
                   healthVars, ruleVars, pureVars, widgetVars>>

\* a quick example button (disabled={isLoading})
handleExampleClick(compound) ==
    /\ activeTab = "analyze"
    /\ ~isLoading
    /\ setQuery(ExampleQuery(compound))
    /\ showCompoundList' = FALSE
    /\ UNCHANGED <<appVars, callVars, compareVars, viewerVars, healthVars,
                   ruleVars, pureVars, widgetVars>>

\* a button of the open compound list; it is not disabled while loading
handleCompoundSelect(compound) ==
    /\ activeTab = "analyze"
    /\ showCompoundList
    /\ setQuery(compound)
    /\ showCompoundList' = FALSE
    /\ UNCHANGED <<appVars, callVars, compareVars, viewerVars, healthVars,
                   ruleVars, pureVars, widgetVars>>

\* a button of 'Did you mean:', shown when suggestions.length > 0 &&
\* query.length > 2; it is not disabled while loading
SelectSuggestion ==
    /\ activeTab = "analyze"
    /\ Len(query) > 2
    /\ \E i \in 1..Len(suggestions[query]) : setQuery(suggestions[query][i])
    /\ UNCHANGED <<showCompoundList, appVars, callVars, compareVars, viewerVars, healthVars,
                   ruleVars, pureVars, widgetVars>>

\* handleSubmit
Submit ==
    /\ activeTab = "analyze"
    /\ ~IsBlank(query) /\ ~isLoading /\ isValidSMILES
    /\ BeginAnalyses(<<Trim(query)>>, 0)
    /\ UNCHANGED <<activeTab, inputVars, compareVars, has3Dmol, healthVars, ruleVars, pureVars, widgetVars>>

\* QueryTemplates: a template button, then App.handleQuerySelect
SelectTemplate ==
    /\ activeTab = "templates"
    /\ ~isLoading
    /\ activeTab' = "analyze"
    /\ BeginAnalyses(<<TTemplate>>, 0)
    /\ UNCHANGED <<inputVars, compareVars, has3Dmol, healthVars, ruleVars, pureVars, widgetVars>>

\* a tab button: the component of the tab that is left is unmounted and
\* loses its state; what it still has in flight can no longer set it
SwitchTab(t) ==
    /\ t # activeTab
    /\ activeTab' = t
    /\ IF activeTab = "analyze"
         THEN query' = <<>> /\ isValidSMILES' = TRUE /\ showCompoundList' = FALSE
         ELSE UNCHANGED inputVars
    /\ IF activeTab = "compare"
         THEN /\ compound1' = <<>>
              /\ compound2' = <<>>
              /\ analysis1' = None
              /\ analysis2' = None
              /\ cmpError' = None
              /\ cmps' = [k \in CmpIds |->
                    IF cmps[k].st \in {"timer", "running"}
                      THEN [cmps[k] EXCEPT !.live = FALSE] ELSE cmps[k]]
              /\ UNCHANGED ncmp
         ELSE UNCHANGED compareVars
    /\ viewer' = ViewerFor(t, analysis)
    /\ UNCHANGED <<analysis, isLoading, error, callVars, has3Dmol, healthVars, ruleVars, pureVars, widgetVars>>

----------------------------------------------------------------------------
(* CompareMode *)

SetCompound1(t) ==
    /\ activeTab = "compare"
    /\ ~isLoading
    /\ t # compound1
    /\ compound1' = t
    /\ UNCHANGED <<appVars, callVars, inputVars, compound2, analysis1, analysis2, cmpError,
                   cmps, ncmp, viewerVars, healthVars,
                   ruleVars, pureVars, widgetVars>>

SetCompound2(t) ==
    /\ activeTab = "compare"
    /\ ~isLoading
    /\ t # compound2
    /\ compound2' = t
    /\ UNCHANGED <<appVars, callVars, inputVars, compound1, analysis1, analysis2, cmpError,
                   cmps, ncmp, viewerVars, healthVars,
                   ruleVars, pureVars, widgetVars>>

\* (variant: the analyses are cleared before the blank test)
handleCompareClearsFirst(maxCmps, maxCalls) ==
    /\ IF IsBlank(compound1) \/ IsBlank(compound2)
         THEN /\ cmpError' = Some(MsgEnterBoth)
              /\ analysis1' = None
              /\ analysis2' = None
              /\ UNCHANGED <<analysis, isLoading, error, callVars, cmps, ncmp, viewer>>
         ELSE /\ ncmp < maxCmps
              /\ cmpError' = None
              /\ analysis1' = None
              /\ analysis2' = None
              /\ BeginAnalysesIn(<<Trim(compound1), Trim(compound2)>>, ncmp + 1, maxCalls)
              /\ cmps' = [cmps EXCEPT ![ncmp + 1] =
                            [st |-> "running", c1 |-> Trim(compound1), c2 |-> Trim(compound2),
                             a |-> ncalls + 1, b |-> ncalls + 2, live |-> TRUE]]
              /\ ncmp' = ncmp + 1
    /\ UNCHANGED <<activeTab, inputVars, compound1, compound2, has3Dmol, healthVars, ruleVars, pureVars, widgetVars>>

\* (variant: the results of the comparison before are left on the page until
\* the new ones arrive)
handleCompareKeepsAnalyses(maxCmps, maxCalls) ==
    /\ IF IsBlank(compound1) \/ IsBlank(compound2)
         THEN /\ cmpError' = Some(MsgEnterBoth)
              /\ UNCHANGED <<analysis, isLoading, error, callVars, analysis1, analysis2,
                             cmps, ncmp, viewer>>
         ELSE /\ ncmp < maxCmps
              /\ cmpError' = None
              /\ UNCHANGED <<analysis1, analysis2>>
              /\ BeginAnalysesIn(<<Trim(compound1), Trim(compound2)>>, ncmp + 1, maxCalls)
              /\ cmps' = [cmps EXCEPT ![ncmp + 1] =
                            [st |-> "running", c1 |-> Trim(compound1), c2 |-> Trim(compound2),
                             a |-> ncalls + 1, b |-> ncalls + 2, live |-> TRUE]]
              /\ ncmp' = ncmp + 1
    /\ UNCHANGED <<activeTab, inputVars, compound1, compound2, has3Dmol, healthVars, ruleVars, pureVars, widgetVars>>

\* handleCompare up to its await (or to its return, when a box is blank),
\* within maxCmps comparisons and maxCalls calls
handleCompareIn(maxCmps, maxCalls) ==
    /\ IF IsBlank(compound1) \/ IsBlank(compound2)
         THEN /\ cmpError' = Some(MsgEnterBoth)
              /\ UNCHANGED <<analysis, isLoading, error, callVars, analysis1, analysis2,
                             cmps, ncmp, viewer>>
         ELSE /\ ncmp < maxCmps
              /\ cmpError' = None
              /\ analysis1' = None
              /\ analysis2' = None
              /\ BeginAnalysesIn(<<Trim(compound1), Trim(compound2)>>, ncmp + 1, maxCalls)
              /\ cmps' = [cmps EXCEPT ![ncmp + 1] =
                            [st |-> "running", c1 |-> Trim(compound1), c2 |-> Trim(compound2),
                             a |-> ncalls + 1, b |-> ncalls + 2, live |-> TRUE]]
              /\ ncmp' = ncmp + 1
    /\ UNCHANGED <<activeTab, inputVars, compound1, compound2, has3Dmol, healthVars, ruleVars, pureVars, widgetVars>>

handleCompare == handleCompareIn(MaxCmps, MaxCalls)

\* the Compare button, enabled only when not loading and both boxes are
\* non-blank: its onClick is handleCompare
HandleCompare ==
    /\ activeTab = "compare"
    /\ ~isLoading /\ ~IsBlank(compound1) /\ ~IsBlank(compound2)
    /\ handleCompare

\* handleCompare called in whatever state CompareMode is in: with a box
\* blank, while a comparison is under way, with the results of one on the page
CallHandleCompare ==
    /\ activeTab = "compare"
    /\ handleCompareIn(MaxCompares, MaxCompareCalls)

\* a quick-comparison button ('Alcohols': ethanol, methanol): handleQuickCompare
\* fills the boxes and sets the 100 ms timer
QuickCompareIn(maxCmps, maxCalls) ==
    /\ activeTab = "compare"
    /\ ~isLoading
    /\ ncmp < maxCmps
    /\ ncalls + 2 <= maxCalls
    /\ compound1' = TEthanol
    /\ compound2' = TMethanol
    /\ cmps' = [cmps EXCEPT ![ncmp + 1] =
                  [st |-> "timer", c1 |-> TEthanol, c2 |-> TMethanol,
                   a |-> 0, b |-> 0, live |-> TRUE]]
    /\ ncmp' = ncmp + 1
    /\ UNCHANGED <<appVars, callVars, inputVars, analysis1, analysis2, cmpError, viewerVars, healthVars,
                   ruleVars, pureVars, widgetVars>>

QuickCompare == QuickCompareIn(MaxCmps, MaxCalls)

\* the timer fires: handleCompareSpecific up to its await
TimerFireIn(k, maxCalls) ==
    /\ cmps[k].st = "timer"
    /\ IF cmps[k].live
         THEN cmpError' = None /\ analysis1' = None /\ analysis2' = None
         ELSE UNCHANGED <<cmpError, analysis1, analysis2>>
    /\ BeginAnalysesIn(<<cmps[k].c1, cmps[k].c2>>, k, maxCalls)
    /\ cmps' = [cmps EXCEPT ![k] = [@ EXCEPT !.st = "running", !.a = ncalls + 1,
                                             !.b = ncalls + 2]]
    /\ UNCHANGED <<activeTab, inputVars, compound1, compound2, ncmp, has3Dmol, healthVars, ruleVars, pureVars, widgetVars>>

TimerFire(k) == TimerFireIn(k, MaxCalls)

----------------------------------------------------------------------------
(* The specification *)

Next ==
    \/ \E t \in FormTexts : TypeQuery(t)
    \/ ToggleCompoundList
    \/ \E compound \in {EXAMPLE_COMPOUNDS[1]} : handleExampleClick(compound)
    \/ \E compound \in {EXAMPLE_COMPOUNDS[1]} : handleCompoundSelect(compound)
    \/ SelectSuggestion
    \/ Submit
    \/ SelectTemplate
    \/ \E t \in Tabs : SwitchTab(t)
    \/ \E t \in CompareTexts : SetCompound1(t)
    \/ \E t \in CompareTexts : SetCompound2(t)
    \/ HandleCompare
    \/ QuickCompare
    \/ \E k \in CmpIds : TimerFire(k)
    \/ \E c \in CallIds : DeliverResponse(c)
    \/ \E c \in CallIds : SendFails(c)
    \/ \E c \in CallIds : Timeout(c)
    \/ \E c \in CallIds : LateResponse(c)
    \/ \E c \in CallIds : ServerParse(c)
    \/ \E c \in CallIds : ServerInternalError(c)
    \/ \E c \in CallIds : ServerEmbed(c)

Spec == Init /\ [][Next]_vars

\* the Compare tab used through its buttons alone (the quick comparison and
\* the Compare button), for up to MaxCompares comparisons
NextCompare ==
    \/ SwitchTab("compare")
    \/ /\ activeTab = "compare"
       /\ ~isLoading /\ ~IsBlank(compound1) /\ ~IsBlank(compound2)
       /\ handleCompareIn(MaxCompares, MaxCompareCalls)
    \/ QuickCompareIn(MaxCompares, MaxCompareCalls)
    \/ \E k \in CmpIds : TimerFireIn(k, MaxCompareCalls)
    \/ \E c \in CallIds : DeliverResponse(c)
    \/ \E c \in CallIds : SendFails(c)
    \/ \E c \in CallIds : Timeout(c)
    \/ \E c \in CallIds : LateResponse(c)
    \/ \E c \in CallIds : ServerParse(c)
    \/ \E c \in CallIds : ServerInternalError(c)
    \/ \E c \in CallIds : ServerEmbed(c)

SpecCompare == Init /\ [][NextCompare]_vars

\* what the Compare boxes hold when the handler is called
HandlerTexts == {TEthanol, TPropanol, TBlank}

\* the Compare tab with handleCompare called directly, whatever the boxes
\* hold, for up to MaxCompares comparisons; every request reaches the backend
\* and is answered
NextHandler ==
    \/ SwitchTab("compare")
    \/ \E t \in HandlerTexts : SetCompound1(t)
    \/ \E t \in HandlerTexts : SetCompound2(t)
    \/ CallHandleCompare
    \/ \E c \in CallIds : DeliverResponse(c)
    \/ \E c \in CallIds : ServerParse(c)
    \/ \E c \in CallIds : ServerInternalError(c)
    \/ \E c \in CallIds : ServerEmbed(c)

SpecHandler == Init /\ [][NextHandler]_vars

\* one compound written twice in the Compare boxes, by its name and by its
\* SMILES
AliasTexts == {TMorphine, SMorphine}

\* the Compare tab comparing a compound with itself
NextAlias ==
    \/ SwitchTab("compare")
    \/ \E t \in AliasTexts : SetCompound1(t)
    \/ \E t \in AliasTexts : SetCompound2(t)
    \/ HandleCompare
    \/ \E c \in CallIds : DeliverResponse(c)
    \/ \E c \in CallIds : SendFails(c)
    \/ \E c \in CallIds : Timeout(c)
    \/ \E c \in CallIds : LateResponse(c)
    \/ \E c \in CallIds : ServerParse(c)
    \/ \E c \in CallIds : ServerInternalError(c)
    \/ \E c \in CallIds : ServerEmbed(c)

SpecAlias == Init /\ [][NextAlias]_vars

----------------------------------------------------------------------------
(* App's backend status polling *)

\* checkBackendStatus up to its await: called by the mount effect and by
\* every tick of the 30 s interval, until the cleanup clears the interval
CheckBackendStatus ==
    /\ mounted
    /\ nchecks < MaxChecks
    /\ checks' = [checks EXCEPT ![nchecks + 1].st = "pending"]
    /\ nchecks' = nchecks + 1
    /\ UNCHANGED <<backendStatus, mounted, mainVars, ruleVars, pureVars, widgetVars>>

\* (variant: a failed check leaves the status shown as it was)
HealthSettlesKeepsLast(h, o) ==
    /\ checks[h].st = "pending"
    /\ checks' = [checks EXCEPT ![h] = [st |-> "done", outcome |-> Some(o),
                                        ret |-> healthCheck(o)]]
    /\ backendStatus' = IF mounted /\ healthCheck(o) THEN Some(TRUE) ELSE backendStatus
    /\ UNCHANGED <<nchecks, mounted, mainVars, ruleVars, pureVars, widgetVars>>

\* the GET of check h settles with outcome o: the rest of healthCheck and of
\* checkBackendStatus
HealthSettles(h, o) ==
    /\ checks[h].st = "pending"
    /\ checks' = [checks EXCEPT ![h] = [st |-> "done", outcome |-> Some(o),
                                        ret |-> healthCheck(o)]]
    /\ backendStatus' = IF mounted THEN Some(healthCheck(o)) ELSE backendStatus
    /\ UNCHANGED <<nchecks, mounted, mainVars, ruleVars, pureVars, widgetVars>>

\* App is unmounted: the effect's cleanup clears the interval (the cleanup
\* exists once the effect has run, that is after the check made at mount)
Unmount ==
    /\ mounted
    /\ nchecks >= 1
    /\ mounted' = FALSE
    /\ UNCHANGED <<backendStatus, checks, nchecks, mainVars, ruleVars, pureVars, widgetVars>>

NextHealth ==
    \/ CheckBackendStatus
    \/ \E h \in CheckIds : \E o \in HealthOutcomes : HealthSettles(h, o)
    \/ Unmount

SpecHealth == Init /\ [][NextHealth]_vars

----------------------------------------------------------------------------
(* The Rule Evaluator as a function of MolecularProperties *)

Evaluate(p) ==
    /\ props = None
    /\ props' = Some(p)
    /\ rules' = Some(RuleEvaluator(p))
    /\ UNCHANGED <<mainVars, healthVars, pureVars, widgetVars>>

NextRules == \E p \in PropertyValues : Evaluate(p)

SpecRules == Init /\ [][NextRules]_vars

----------------------------------------------------------------------------
(* The Functional Group Detector as a function of the matches in a molecule *)

\* the patterns whose number of matches varies (the others match nowhere)
VaryingPatterns == {"hydroxyl", "carbonyl", "amine", "ether", "methyl"}

MatchCounts ==
    {[n \in {PatternTable[i] : i \in 1..Len(PatternTable)} |->
         IF n \in VaryingPatterns THEN f[n] ELSE 0] :
       f \in [VaryingPatterns -> 0..MaxMatches]}

Detect(m) ==
    /\ input = None
    /\ input' = Some(m)
    /\ output' = Some(FunctionalGroups(m))
    /\ UNCHANGED <<mainVars, healthVars, ruleVars, widgetVars>>

NextGroups == \E m \in MatchCounts : Detect(m)

SpecGroups == Init /\ [][NextGroups]_vars

----------------------------------------------------------------------------
(* validateSMILES and isSMILESLike as functions of the text *)

TextAlphabet == {"(", ")", "[", "]", "C", "c", " ", "\t"}

Texts == UNION {[1..n -> TextAlphabet] : n \in 0..MaxLen}

ApplyToText(t) ==
    /\ input = None
    /\ input' = Some(t)
    /\ output' = Some([validation |-> validateSMILES(t), smilesLike |-> isSMILESLike(t)])
    /\ UNCHANGED <<mainVars, healthVars, ruleVars, widgetVars>>

NextText == \E t \in Texts : ApplyToText(t)

SpecText == Init /\ [][NextText]_vars

----------------------------------------------------------------------------
(* CompoundInfo: the toxicity warnings of an analysis *)

\* the exported thresholds; logP is kept in tenths, so highLogP 5 is 50
TOXICITY_THRESHOLDS ==
    [highLogP |-> 50, highMolecularWeight |-> 600,
     highPolarSurfaceArea |-> 200, maxRotatableBonds |-> 10]

WarnLogP == <<"High lipophilicity may cause toxicity">>
WarnWeight == <<"High molecular weight may limit bioavailability">>
WarnPolar == <<"Very high polar surface area may limit absorption">>

\* Array.prototype.join(', ')
RECURSIVE Join(_)
Join(list) ==
    IF Len(list) = 0 THEN <<>>
    ELSE IF Len(list) = 1 THEN <<list[1]>>
    ELSE <<list[1], ", ">> \o Join(Tail(list))

\* the template string `Potential CYP450 interactions: ${list.join(', ')}`
WarnCyp(list) == <<"Potential CYP450 interactions: ">> \o Join(list)

\* (variant: the numeric tests include the limit)
getToxicityWarningsInclusive(a) ==
    (IF a.logP >= 50 THEN <<WarnLogP>> ELSE <<>>)
    \o (IF a.molecularWeight >= 600 THEN <<WarnWeight>> ELSE <<>>)
    \o (IF Len(a.cyp450Inhibition) > 0 THEN <<WarnCyp(a.cyp450Inhibition)>> ELSE <<>>)
    \o (IF a.polarSurfaceArea >= 200 THEN <<WarnPolar>> ELSE <<>>)

\* getToxicityWarnings of the analysis with these properties and admet list
getToxicityWarnings(a) ==
    (IF a.logP > 50 THEN <<WarnLogP>> ELSE <<>>)
    \o (IF a.molecularWeight > 600 THEN <<WarnWeight>> ELSE <<>>)
    \o (IF Len(a.cyp450Inhibition) > 0 THEN <<WarnCyp(a.cyp450Inhibition)>> ELSE <<>>)
    \o (IF a.polarSurfaceArea > 200 THEN <<WarnPolar>> ELSE <<>>)

\* {warnings.length > 0 && ( ... Potential Concerns ... )}
ShowsConcerns(warnings) == Len(warnings) > 0

ToxicityValues ==
    [logP : {-10, 49, 50, 51},
     molecularWeight : {599, 600, 601},
     cyp450Inhibition : {<<>>, <<"CYP3A4">>, <<"CYP3A4", "CYP2D6">>},
     polarSurfaceArea : {199, 200, 201}]

\* CompoundInfo rendered for an analysis
RenderCompoundInfo(a) ==
    /\ input = None
    /\ input' = Some(a)
    /\ output' = Some([warnings |-> getToxicityWarnings(a),
                       concerns |-> ShowsConcerns(getToxicityWarnings(a))])
    /\ UNCHANGED <<mainVars, healthVars, ruleVars, widgetVars>>

NextInfo == \E a \in ToxicityValues : RenderCompoundInfo(a)

SpecInfo == Init /\ [][NextInfo]_vars

----------------------------------------------------------------------------
(* CompoundInput.getSuggestions *)

\* the queries getSuggestions is applied to: fragments of names, and texts
\* that start with nothing, white space or the beginning of a sentence and say
\* of each of seven compounds nothing, its name in lower case or its name in
\* capitals
Queries ==
    LET Mentions ==
        << {<<>>, <<" ", "a", "s", "p", "i", "r", "i", "n">>, <<" ", "A", "S", "P", "I", "R", "I", "N">>},
           {<<>>, <<" ", "i", "b", "u", "p", "r", "o", "f", "e", "n">>, <<" ", "I", "b", "u", "p", "r", "o", "f", "e", "n">>},
           {<<>>, <<" ", "p", "a", "r", "a", "c", "e", "t", "a", "m", "o", "l">>, <<" ", "P", "A", "R", "A", "C", "E", "T", "A", "M", "O", "L">>},
           {<<>>, <<" ", "n", "a", "p", "r", "o", "x", "e", "n">>, <<" ", "N", "a", "p", "r", "o", "x", "e", "n">>},
           {<<>>, <<" ", "c", "a", "f", "f", "e", "i", "n", "e">>, <<" ", "C", "A", "F", "F", "E", "I", "N", "E">>},
           {<<>>, <<" ", "n", "i", "c", "o", "t", "i", "n", "e">>, <<" ", "N", "i", "c", "o", "t", "i", "n", "e">>},
           {<<>>, <<" ", "g", "l", "u", "c", "o", "s", "e">>, <<" ", "G", "L", "U", "C", "O", "S", "E">>} >>
        Openings == {<<>>, <<" ", " ">>, <<"C", "o", "m", "p", "a", "r", "e">>}
        Fragments == {<<"i", "n">>, <<"I", "N">>, <<"e", "t", "h">>, <<"C", "a", "f">>}
    IN
    Fragments \cup
    {o \o m1 \o m2 \o m3 \o m4 \o m5 \o m6 \o m7 :
        o \in Openings, m1 \in Mentions[1], m2 \in Mentions[2], m3 \in Mentions[3],
        m4 \in Mentions[4], m5 \in Mentions[5], m6 \in Mentions[6], m7 \in Mentions[7]}

\* CompoundInput rendered with the query q
Suggest(q) ==
    /\ input = None
    /\ input' = Some(q)
    /\ output' = Some(getSuggestions(q))
    /\ UNCHANGED <<mainVars, healthVars, ruleVars, widgetVars>>

SpecSuggest == Init /\ [][\E q \in Queries : Suggest(q)]_vars

----------------------------------------------------------------------------
(* CompoundInfo.copyToClipboard *)

\* a copy button: copyToClipboard(text, field) up to its await
CopyToClipboard(f) ==
    LET i == Cardinality({j \in CopyIds : copies[j].st # "none"}) + 1 IN
    /\ i <= MaxCopies
    /\ copies' = [copies EXCEPT ![i] = [st |-> "writing", field |-> f]]
    /\ UNCHANGED <<copiedField, timers, darkMode, written, prefersDark,
                   mainVars, healthVars, ruleVars, pureVars>>

\* navigator.clipboard.writeText resolves: setCopiedField(field), setTimeout
WriteSucceeds(i) ==
    /\ copies[i].st = "writing"
    /\ copiedField' = Some(copies[i].field)
    /\ timers' = Append(timers, i)
    /\ copies' = [copies EXCEPT ![i].st = "shown"]
    /\ UNCHANGED <<darkMode, written, prefersDark, mainVars, healthVars, ruleVars, pureVars>>

\* navigator.clipboard.writeText rejects: the catch logs the error
WriteFails(i) ==
    /\ copies[i].st = "writing"
    /\ copies' = [copies EXCEPT ![i].st = "failed"]
    /\ UNCHANGED <<copiedField, timers, darkMode, written, prefersDark,
                   mainVars, healthVars, ruleVars, pureVars>>

\* a 2 s timer fires (timers of equal delay fire in the order they were set):
\* setCopiedField(null)
CopyTimerFires ==
    /\ timers # <<>>
    /\ copiedField' = None
    /\ timers' = Tail(timers)
    /\ copies' = [copies EXCEPT ![Head(timers)].st = "cleared"]
    /\ UNCHANGED <<darkMode, written, prefersDark, mainVars, healthVars, ruleVars, pureVars>>

SpecCopy ==
    Init /\ [][(\E f \in {"name", "iupac", "formula", "smiles"} : CopyToClipboard(f))
                \/ (\E i \in CopyIds : WriteSucceeds(i))
                \/ (\E i \in CopyIds : WriteFails(i))
                \/ CopyTimerFires]_vars

----------------------------------------------------------------------------
(* App's dark mode *)

\* the toggle button: setDarkMode(!darkMode), then the effect of [darkMode]
ToggleDarkMode ==
    /\ Len(written) < MaxWrites
    /\ darkMode' = ~darkMode
    /\ written' = Append(written, BoolString(darkMode'))
    /\ UNCHANGED <<prefersDark, copiedField, copies, timers,
                   mainVars, healthVars, ruleVars, pureVars>>

\* the page is loaded again: the initialiser of darkMode, then the effect
Reload ==
    /\ Len(written) < MaxWrites
    /\ LET item == IF written = <<>> THEN None ELSE Some(written[Len(written)])
       IN  darkMode' = InitialDarkMode(item, prefersDark)
    /\ written' = Append(written, BoolString(darkMode'))
    /\ UNCHANGED <<prefersDark, copiedField, copies, timers,
                   mainVars, healthVars, ruleVars, pureVars>>

\* the user changes the colour scheme of the operating system
SetColourScheme(dark) ==
    /\ dark # prefersDark
    /\ prefersDark' = dark
    /\ UNCHANGED <<darkMode, written, copiedField, copies, timers,
                   mainVars, healthVars, ruleVars, pureVars>>

SpecDark ==
    Init /\ [][ToggleDarkMode \/ Reload \/ (\E dark \in BOOLEAN : SetColourScheme(dark))]_vars

----------------------------------------------------------------------------
(* Properties *)

\* the outcome recorded for a finished call
OutcomeOf(c) == Val(calls[c].outcome)

\* call c finishes in this step
Finishes(c) == calls[c].st = "awaiting" /\ calls'[c].st = "done"

\* the backend answered with a failure that carries an error message
BackendFailureWithMessage(o) ==
    /\ o.kind = "response"
    /\ IsSome(o.body)
    /\ ~Val(o.body).success
    /\ IsSome(Val(o.body).error)
    /\ Val(Val(o.body).error) # <<>>

\* the backend answered success with a record whose structure3D is empty
SuccessWithEmptyStructure(o) ==
    /\ o.kind = "response"
    /\ Is2xx(o.status)
    /\ IsSome(o.body)
    /\ Val(o.body).success
    /\ IsSome(Val(o.body).data)
    /\ Val(Val(o.body).data).structure3D = <<>>

\* C1: analyzeCompound always resolves; for every outcome of the POST but a
\* completed 2xx response the value is a failure (success = false) with a
\* non-empty error string, and for a completed 2xx response it is the body
\* the server sent.
AnalyzeCompoundNeverRejects ==
    \A c \in CallIds :
        calls[c].st = "done" =>
            LET o == OutcomeOf(c)
                r == calls[c].resp
            IN  IF o.kind = "response" /\ o.status \in 200..299
                  THEN r = o.body
                  ELSE /\ IsSome(r)
                       /\ Val(r).success = FALSE
                       /\ IsSome(Val(r).error)
                       /\ Len(Val(Val(r).error)) > 0

\* a call answered 500 without a JSON body has resolved to the fallback message
ServerErrorWithoutBodyResolved ==
    \E c \in CallIds :
        /\ calls[c].st = "done"
        /\ OutcomeOf(c).kind = "response"
        /\ OutcomeOf(c).status = 500
        /\ OutcomeOf(c).body = None
        /\ calls[c].resp = Some(FailureBody(MsgServerError))

\* C2: whenever the backend answers an analysis request with a failure that
\* carries an error message, under whatever HTTP status, the string App holds
\* in `error` once handleAnalyze has completed is the backend's message.
BackendMessageSurfaced ==
    [][\A c \in CallIds :
          (Finishes(c) /\ BackendFailureWithMessage(Val(calls'[c].outcome)))
            => error' = Val(calls'[c].outcome).body[1].error]_vars

\* C3: for the query "C(((" that the backend has answered, the outcome is a
\* failure whose error identifies the unbalanced parentheses, and no record
\* is returned for it.
UnbalancedParenthesesReported ==
    \A c \in CallIds :
        (calls[c].st = "done" /\ calls[c].q = TUnbalanced
           /\ BackendFailureWithMessage(OutcomeOf(c)))
          => /\ calls[c].resp = Some(FailureBody(MsgSyntaxParens))
             /\ calls[c].result = None

\* C4: when handleAnalyze receives a success whose structure3D is empty, it
\* returns the record, App.analysis is the record and App.error is null; the
\* MoleculeViewer creates no model for the empty block and shows the
\* placeholder.
ConformerFailureAccepted ==
    [][\A c \in CallIds :
          (Finishes(c) /\ SuccessWithEmptyStructure(Val(calls'[c].outcome)))
            => LET data == Val(calls'[c].outcome).body[1].data
               IN  /\ calls'[c].result = data
                   /\ analysis' = data
                   /\ error' = None
                   /\ ViewerEffect(has3Dmol, data[1].structure3D) = None
                   /\ ShowsPlaceholder(data[1].structure3D)]_vars

\* C5: when a comparison shown in the Compare tab completes, analysis1 is what
\* the request for its first compound returned and analysis2 what the
\* request for its second compound returned (the record of that compound, or
\* null when that request failed), in whatever order the two finished.
ComparisonResultsInOrder ==
    [][\A k \in CmpIds :
          (cmps[k].st = "running" /\ cmps'[k].st = "settled" /\ cmps[k].live)
            => LET a == calls'[cmps[k].a]
                   b == calls'[cmps[k].b]
               IN  /\ a.q = cmps[k].c1 /\ analysis1' = a.result
                   /\ b.q = cmps[k].c2 /\ analysis2' = b.result
                   /\ IsSome(analysis1') =>
                        Val(analysis1').smiles = Resolve(cmps[k].c1).smiles
                   /\ IsSome(analysis2') =>
                        Val(analysis2').smiles = Resolve(cmps[k].c2).smiles
                   /\ analysis1' = None <=> ~Accepts(a.resp)
                   /\ analysis2' = None <=> ~Accepts(b.resp)]_vars

\* a comparison of two different compounds has completed with the first
\* analysed and the second failed, and one with both analysed
ComparisonCompletedMixed ==
    \E k \in CmpIds :
        /\ cmps[k].st = "settled" /\ cmps[k].live
        /\ cmps[k].c1 = TEthanol /\ cmps[k].c2 = TPropanol
        /\ calls[cmps[k].a].st = "done" /\ calls[cmps[k].b].st = "done"
        /\ IsSome(analysis1) /\ Val(analysis1).smiles = SEthanol
        /\ analysis2 = None

\* the record the backend returned to call c, when it returned one
RecordOf(c) == Val(Val(OutcomeOf(c).body).data)

ReturnedRecord(c) ==
    /\ calls[c].st = "done"
    /\ OutcomeOf(c).kind = "response"
    /\ IsSome(OutcomeOf(c).body)
    /\ Val(OutcomeOf(c).body).success
    /\ IsSome(Val(OutcomeOf(c).body).data)

\* of any kind no further request is sent for that call.
ExactlyOnePost ==
    \A c \in CallIds :
        /\ calls[c].st \in {"awaiting", "done"} => calls[c].posts = 1
        /\ calls[c].st = "free" => calls[c].posts = 0 /\ srv[c].phase = "none"

\* calls have failed on a timeout and on a backend failure, one POST each
FailedAfterOnePost ==
    \E c, d \in CallIds :
        /\ calls[c].st = "done" /\ calls[d].st = "done"
        /\ OutcomeOf(c) = AxiosError("ECONNABORTED")
        /\ BackendFailureWithMessage(OutcomeOf(d))
        /\ calls[c].posts = 1 /\ calls[d].posts = 1

\* the response of an abandoned request reaches the browser in this step
ArrivesLate(c) ==
    /\ calls[c].st \in {"done", "past"}
    /\ srv[c].phase = "ready"
    /\ srv'[c].phase = "done"

\* C8: when the POST times out, analyzeCompound resolves to the failure with
\* the timeout message and App ends with isLoading = false, analysis = null
\* and error set; the late response of the abandoned request does not set
\* analysis.
TimedOutRequestAbandoned ==
    [][/\ \A c \in CallIds :
            (Finishes(c) /\ calls'[c].outcome = Some(AxiosError("ECONNABORTED")))
              => /\ calls'[c].resp = Some(FailureBody(MsgTimeout))
                 /\ calls'[c].result = None
                 /\ isLoading' = FALSE
                 /\ analysis' = None
                 /\ error' # None
       /\ \A c \in CallIds : ArrivesLate(c) => analysis' = analysis]_vars

\* C9: healthCheck always resolves to a boolean: true exactly when the GET
\* completed with status 200, false for every other status, error or timeout.
HealthCheckIsStatus200 ==
    \A h \in CheckIds :
        checks[h].st = "done" =>
            LET o == Val(checks[h].outcome)
            IN  /\ checks[h].ret \in BOOLEAN
                /\ checks[h].ret <=> (o.kind = "response" /\ o.status = 200)

\* one check has completed with 200 and another with 204
HealthChecked200And204 ==
    \E g, h \in CheckIds :
        /\ checks[g].st = "done" /\ checks[h].st = "done"
        /\ Val(checks[g].outcome) = HttpResponse(200, None) /\ checks[g].ret = TRUE
        /\ Val(checks[h].outcome) = HttpResponse(204, None) /\ checks[h].ret = FALSE

\* the strict threshold tests of the two rules that hold of p (logP in tenths)
LipinskiTests(p) ==
    {t \in {"MW", "logP", "donors", "acceptors"} :
        \/ t = "MW" /\ p.molecularWeight > 500
        \/ t = "logP" /\ p.logP > 50
        \/ t = "donors" /\ p.hbondDonors > 5
        \/ t = "acceptors" /\ p.hbondAcceptors > 10}

VeberTests(p) ==
    {t \in {"rotatable", "PSA"} :
        \/ t = "rotatable" /\ p.rotatablebonds > 10
        \/ t = "PSA" /\ p.polarSurfaceArea > 140}

\* C10: for every MolecularProperties value the Lipinski violation count is
\* in 0..4 and the Veber violation count in 0..2, each the number of its
\* rule's strict threshold tests that hold.
ViolationCountsInRange ==
    IsSome(rules) =>
        /\ Val(rules).lipinskiViolations \in 0..4
        /\ Val(rules).veberViolations \in 0..2
        /\ Val(rules).lipinskiViolations = Cardinality(LipinskiTests(Val(props)))
        /\ Val(rules).veberViolations = Cardinality(VeberTests(Val(props)))

\* a value on the threshold of molecular weight and beyond the others has
\* been evaluated
ThresholdValueEvaluated ==
    /\ IsSome(rules)
    /\ Val(props).molecularWeight = 500
    /\ Val(props).logP = 51
    /\ Val(rules).lipinskiViolations = 3
    /\ Val(rules).veberViolations = 2

\* C11: in every record drugLikeness.drugLikeness is true if and only if
\* drugLikeness.lipinskiViolations <= 1.
DrugLikenessIffAtMostOneViolation ==
    IsSome(rules) =>
        /\ Val(rules).drugLikeness \in BOOLEAN
        /\ Val(rules).drugLikeness <=> Val(rules).lipinskiViolations <= 1
        /\ Val(rules).drugLikeness <=> Cardinality(LipinskiTests(Val(props))) <= 1

\* a value with exactly one violation has been found drug-like, as a value
\* evaluated with two is not
OneViolationDrugLike ==
    /\ IsSome(rules)
    /\ Val(rules).lipinskiViolations = 1
    /\ Val(props).molecularWeight = 501
    /\ Val(rules).drugLikeness = TRUE

\* C12 (as stated): for every MolecularProperties value for which
\* leadLikeness is true, drugLikeness is also true.
LeadLikenessImpliesDrugLikeness ==
    IsSome(rules) => (Val(rules).leadLikeness => Val(rules).drugLikeness)

\* C12 (amended): for every MolecularProperties value for which leadLikeness
\* is true, neither the molecular-weight nor the logP test of Lipinski's rule
\* holds, so the violation count is at most 2; drugLikeness is then true
\* exactly when at most one of donors > 5, acceptors > 10 holds.
LeadLikenessBoundsViolations ==
    (IsSome(rules) /\ Val(rules).leadLikeness) =>
        /\ LipinskiTests(Val(props)) \subseteq {"donors", "acceptors"}
        /\ Val(rules).lipinskiViolations <= 2
        /\ Val(rules).drugLikeness <=> LipinskiTests(Val(props)) # {"donors", "acceptors"}

\* a lead-like value with too many donors and acceptors has been evaluated
LeadLikeNotDrugLike ==
    /\ IsSome(rules)
    /\ Val(rules).leadLikeness
    /\ Val(props).hbondDonors = 6 /\ Val(props).hbondAcceptors = 11
    /\ Val(rules).lipinskiViolations = 2
    /\ ~Val(rules).drugLikeness

\* attempt n of request c did not converge
AttemptFailed(c, n) == ~Converges(EmbeddingSeed(c, srv[c].smiles, n))

\* C13: each request makes at most two embedding attempts, the second only
\* after the first failed to converge; while the generator is at work at most
\* one attempt has been made, so it ends with the next attempt or the one
\* after; two failures give the empty block, and the request still completes
\* with a success response.
ConformerBoundedRetry ==
    \A c \in CallIds :
        /\ srv[c].attempts \in 0..2
        /\ srv[c].phase = "conformer" =>
              /\ srv[c].attempts <= 1
              /\ srv[c].attempts = 1 => AttemptFailed(c, 1)
        /\ (srv[c].phase = "ready" /\ srv[c].attempts > 0) =>
              /\ srv[c].attempts = 2 => AttemptFailed(c, 1)
              /\ srv[c].status = 200
              /\ IsSome(srv[c].body) /\ Val(srv[c].body).success
              /\ IsSome(Val(srv[c].body).data)
              /\ Val(Val(srv[c].body).data).structure3D = <<>>
                   <=> (srv[c].attempts = 2 /\ AttemptFailed(c, 2))

\* a request whose two attempts failed is ready with a success response and
\* an empty block
ConformerGaveUp ==
    \E c \in CallIds :
        /\ srv[c].phase = "ready" /\ srv[c].attempts = 2
        /\ AttemptFailed(c, 1) /\ AttemptFailed(c, 2)
        /\ srv[c].status = 200
        /\ Val(Val(srv[c].body).data).structure3D = <<>>

\* position of a name in the pattern table
TableIndex(name) == CHOOSE i \in 1..Len(PatternTable) : PatternTable[i] = name

\* C14: the functionalGroups list contains no duplicates, lists exactly the
\* patterns that match, and is in the order of the pattern table, however
\* many times a pattern matches.
FunctionalGroupsDistinctInTableOrder ==
    IsSome(output) =>
        LET g == Val(output)
            m == Val(input)
        IN  /\ \A i, j \in 1..Len(g) : i # j => g[i] # g[j]
            /\ \A i, j \in 1..Len(g) : i < j => TableIndex(g[i]) < TableIndex(g[j])
            /\ {g[i] : i \in 1..Len(g)} = {n \in DOMAIN m : m[n] > 0}

\* a molecule in which one pattern matches twice and an earlier one once
RepeatedMatchListedOnce ==
    /\ IsSome(output)
    /\ Val(input)["methyl"] = 2 /\ Val(input)["hydroxyl"] = 1
    /\ Val(input)["carbonyl"] = 0 /\ Val(input)["amine"] = 0 /\ Val(input)["ether"] = 0
    /\ Val(output) = <<"hydroxyl", "methyl">>

\* the request of call c is on its way or at the backend
InFlight(c) == srv[c].phase \in {"received", "conformer", "ready"}

\* C15: every analysis request sent has a query that is a non-empty string
\* with no leading or trailing white space, whichever entry point started it.
RequestQueryTrimmedNonEmpty ==
    \A c \in CallIds :
        InFlight(c) =>
            /\ Len(srv[c].raw) > 0
            /\ srv[c].raw[1] \notin WhiteSpace
            /\ srv[c].raw[Len(srv[c].raw)] \notin WhiteSpace

\* the box holds a query with a leading space and its request is in flight
PaddedQuerySentTrimmed ==
    \E c \in CallIds :
        /\ query = TUnbalancedSp
        /\ calls[c].st = "awaiting" /\ calls[c].cmp = 0
        /\ InFlight(c)
        /\ srv[c].raw = TUnbalanced

\* the number of positions of text t that hold ch
Occurrences(t, ch) == Cardinality({i \in DOMAIN t : t[i] = ch})

\* e is one of the errors reported
Reports(v, e) == \E i \in 1..Len(v.errors) : v.errors[i] = e

\* C16: validateSMILES reports 'Unbalanced parentheses' exactly when the
\* numbers of '(' and ')' differ and 'Unbalanced square brackets' exactly when
\* the numbers of '[' and ']' differ; every string with unequal counts has
\* isValid = false.
BalanceReportedExactly ==
    IsSome(output) =>
        LET t == Val(input)
            v == Val(output).validation
        IN  /\ Reports(v, ErrUnbalancedParens)
                 <=> Occurrences(t, "(") # Occurrences(t, ")")
            /\ Reports(v, ErrUnbalancedBrackets)
                 <=> Occurrences(t, "[") # Occurrences(t, "]")
            /\ (Occurrences(t, "(") # Occurrences(t, ")")
                  \/ Occurrences(t, "[") # Occurrences(t, "]")) => v.isValid = FALSE

\* a text with more closing than opening parentheses, brackets balanced, has
\* been validated
ExcessClosingReported ==
    /\ IsSome(output)
    /\ Val(input) = <<"C", ")", "[", "]">>
    /\ Val(output).validation.errors = <<ErrUnbalancedParens>>
    /\ Val(output).validation.isValid = FALSE

\* the classification the specification gives: on the text stripped of
\* surrounding whitespace, only SMILES-alphabet characters (hence no embedded
\* space), a carbon symbol (aliphatic C or aromatic c), more than 3 characters
TreatedAsSmiles(text) ==
    LET stripped == Trim(text) IN
    /\ SmilesPattern(stripped)
    /\ (Includes(stripped, "C") \/ Includes(stripped, "c"))
    /\ ~Includes(stripped, " ")
    /\ Len(stripped) > 3

\* C17: isSMILESLike(text) returns true for exactly the texts that, stripped
\* of surrounding whitespace, consist only of SMILES-alphabet characters,
\* contain a carbon symbol, have no embedded spaces and have length > 3
\* (aromatic SMILES and texts with leading or trailing whitespace included).
SmilesLikeIsClassification ==
    IsSome(output) => Val(output).smilesLike = TreatedAsSmiles(Val(input))

\* C18: whenever a handleAnalyze call completes unsuccessfully (success false,
\* success without data, or a thrown error) with no other analysis in flight,
\* App.analysis is null and App.error is a non-empty message, even if an
\* earlier query had succeeded.
NoResultSurvivesFailure ==
    [][\A c \in CallIds :
          (/\ Finishes(c)
           /\ ~Accepts(calls'[c].resp)
           /\ \A d \in CallIds \ {c} : ~Awaiting(d))
            => /\ analysis' = None
               /\ IsSome(error')
               /\ Len(Val(error')) > 0]_vars

\* check h completes in this step
CheckCompletes(h) == checks[h].st = "pending" /\ checks'[h].st = "done"

\* C19: backendStatus is null in the initial state and, while App is mounted,
\* exactly until the first health check completes; checks start at mount and
\* then only until unmount; each check that completes sets backendStatus to
\* that check's boolean; backendStatus never returns to null.
BackendStatusLifecycle ==
    /\ [](mounted => (backendStatus = None
                        <=> \A h \in CheckIds : checks[h].st # "done"))
    /\ [](~mounted => nchecks >= 1)
    /\ [][nchecks' # nchecks => mounted /\ mounted']_vars
    /\ [][\A h \in CheckIds :
            (CheckCompletes(h) /\ mounted) => backendStatus' = Some(checks'[h].ret)]_vars
    /\ [][backendStatus # None => backendStatus' # None]_vars

\* App is mounted, a first check found the backend online and a later one
\* found it offline: the indicator went from Online to Offline
StatusWentOffline ==
    /\ mounted
    /\ checks[1].st = "done" /\ checks[1].ret = TRUE
    /\ checks[2].st = "done" /\ checks[2].ret = FALSE
    /\ backendStatus = Some(FALSE)

\* C20: getToxicityWarnings returns the warnings in the order logP, molecular
\* weight, CYP450, polar surface area, each present exactly when its test holds
\* (logP, weight and area strictly above the limit of TOXICITY_THRESHOLDS, so a
\* value equal to the limit raises nothing; CYP450 list non-empty), and the
\* 'Potential Concerns' box is shown exactly when at least one test holds.
ToxicityWarningsInOrder ==
    IsSome(output) =>
        LET a == Val(input)
            w == Val(output).warnings
            highLogP == a.logP > TOXICITY_THRESHOLDS.highLogP
            highWeight == a.molecularWeight > TOXICITY_THRESHOLDS.highMolecularWeight
            cyp == a.cyp450Inhibition # <<>>
            highPolar == a.polarSurfaceArea > TOXICITY_THRESHOLDS.highPolarSurfaceArea
            tests == << <<highLogP, WarnLogP>>, <<highWeight, WarnWeight>>,
                        <<cyp, WarnCyp(a.cyp450Inhibition)>>, <<highPolar, WarnPolar>> >>
            holding == SelectSeq(tests, LAMBDA t : t[1])
        IN  /\ Len(w) = Len(holding)
            /\ \A i \in 1..Len(w) : w[i] = holding[i][2]
            /\ Val(output).concerns <=> (highLogP \/ highWeight \/ cyp \/ highPolar)

\* an analysis with logP 5, weight 600 and area 200 exactly and two CYP450
\* entries has been rendered: the one warning is the CYP450 one
LimitValuesRaiseNothing ==
    /\ IsSome(output)
    /\ Val(input).logP = 50
    /\ Val(input).molecularWeight = 600
    /\ Val(input).polarSurfaceArea = 200
    /\ Val(output).warnings =
         << <<"Potential CYP450 interactions: ", "CYP3A4", ", ", "CYP2D6">> >>
    /\ Val(output).concerns

\* compound number i of EXAMPLE_COMPOUNDS matches the query q: one of the two
\* lower-cased texts contains the other
Matches(q, i) ==
    \/ Contains(LowerCase(q), EXAMPLE_COMPOUNDS[i])
    \/ Contains(EXAMPLE_COMPOUNDS[i], LowerCase(q))

\* the suggestions list compound number i
Suggested(i) == \E k \in 1..Len(Val(output)) : Val(output)[k] = EXAMPLE_COMPOUNDS[i]

\* C21 (as claimed): for every query that contains the name of a compound of
\* EXAMPLE_COMPOUNDS in any letter case, getSuggestions returns a list that
\* contains that compound; for a blank query it returns the empty list.
EveryNamedCompoundSuggested ==
    IsSome(output) =>
        IF IsBlank(Val(input)) THEN Val(output) = <<>>
        ELSE \A i \in 1..Len(EXAMPLE_COMPOUNDS) :
                Contains(LowerCase(Val(input)), EXAMPLE_COMPOUNDS[i]) => Suggested(i)

\* C21 (amended): for a blank query getSuggestions returns the empty list;
\* otherwise it returns, in the order of EXAMPLE_COMPOUNDS, the first five
\* compounds that match the query in either direction and in any letter case,
\* so a compound named in the query is listed exactly when fewer than five
\* matching compounds precede it.
FirstFiveMatchesSuggested ==
    IsSome(output) =>
        LET q == Val(input)
            out == Val(output)
            preceding(i) == Cardinality({j \in 1..(i - 1) : Matches(q, j)})
        IN  IF IsBlank(q) THEN out = <<>>
            ELSE /\ Len(out) <= 5
                 /\ \A i \in 1..Len(EXAMPLE_COMPOUNDS) :
                       Suggested(i) <=> (Matches(q, i) /\ preceding(i) < 5)
                 /\ \A k \in 1..(Len(out) - 1) :
                       \E i, j \in 1..Len(EXAMPLE_COMPOUNDS) :
                           i < j /\ out[k] = EXAMPLE_COMPOUNDS[i] /\ out[k + 1] = EXAMPLE_COMPOUNDS[j]

\* a sentence naming six compounds, some in capitals, got the first five as
\* suggestions and not the sixth
SixthNameNotSuggested ==
    /\ IsSome(output)
    /\ Contains(Val(input), <<"C", "o", "m", "p", "a", "r", "e", " ", "A", "S", "P">>)
    /\ Len(Val(output)) = 5
    /\ Contains(LowerCase(Val(input)), EXAMPLE_COMPOUNDS[22])
    /\ ~Suggested(22)

\* the calls begun in this step
Begun == {c \in CallIds : calls[c].st # "awaiting" /\ calls'[c].st = "awaiting"}

\* C22: handleCompare with either compound blank after trimming sets the error
\* 'Please enter both compounds to compare', sends no request and leaves
\* analysis1 and analysis2 unchanged; with both non-blank it clears the error
\* and both analyses and sends exactly two requests, one for each trimmed
\* compound.
HandleCompareBlankOrTwoRequests ==
    [][CallHandleCompare =>
         IF Trim(compound1) = <<>> \/ Trim(compound2) = <<>>
           THEN /\ cmpError' = Some(MsgEnterBoth)
                /\ Begun = {}
                /\ ncalls' = ncalls /\ srv' = srv /\ calls' = calls
                /\ analysis1' = analysis1 /\ analysis2' = analysis2
           ELSE /\ cmpError' = None
                /\ analysis1' = None /\ analysis2' = None
                /\ Begun = {ncalls + 1, ncalls + 2}
                /\ ncalls' = ncalls + 2
                /\ calls'[ncalls + 1].posts = 1 /\ calls'[ncalls + 2].posts = 1
                /\ srv'[ncalls + 1].phase = "received" /\ srv'[ncalls + 1].raw = Trim(compound1)
                /\ srv'[ncalls + 2].phase = "received" /\ srv'[ncalls + 2].raw = Trim(compound2)
                /\ \A c \in CallIds \ Begun : srv'[c] = srv[c]]_vars

\* handleCompare started a second comparison after the first had settled, and
\* was then called with a blank box while the results of the second were
\* shown: the message is set and both results are still there
BlankCompareKeepsResults ==
    /\ cmpError = Some(MsgEnterBoth)
    /\ IsBlank(compound2)
    /\ analysis1 # None /\ analysis2 # None
    /\ ncmp = 2 /\ cmps[2].st = "settled" /\ cmps[2].live
    /\ calls[cmps[1].a].st = "past" /\ calls[cmps[1].b].st = "past"
    /\ \A c \in CallIds : ~Awaiting(c)

\* C23: in every reachable state of App, analysis and error are not both
\* non-null: the result panel and the 'Analysis Error' box are never shown
\* together.
ResultAndErrorExclusive == ~(analysis # None /\ error # None)

\* C24: isLoading is true in every state in which at least one handleAnalyze
\* call is waiting for its request, and false when none is.
LoadingWhileInFlight == isLoading <=> \E c \in CallIds : Awaiting(c)

\* the submit button of CompoundInput is enabled: the negation of its disabled
\* condition, which is also the test handleSubmit makes before onAnalyze
SubmitEnabled == ~IsBlank(query) /\ ~isLoading /\ isValidSMILES

\* C25: in every reachable state where the query is non-blank, isLoading is
\* false and the current query is either not SMILES-like or passes
\* validateSMILES, the submit is enabled: a validation failure of an earlier
\* query never blocks a later one.
SubmitBlockedOnlyByCurrentQuery ==
    (/\ activeTab = "analyze"
     /\ ~IsBlank(query)
     /\ ~isLoading
     /\ (~isSMILESLike(query) \/ validateSMILES(query).isValid))
      => SubmitEnabled

\* comparison k settles in this step
ComparisonSettles(k) == cmps[k].st = "running" /\ cmps'[k].st = "settled"

\* C26: once all outstanding requests have settled, analysis1 and analysis2
\* are the results of the most recently started comparison: a comparison
\* started earlier never overwrites the results of a later one, so when a
\* comparison settles after a comparison started later has settled,
\* analysis1 and analysis2 keep their values.
EarlierComparisonNeverOverwrites ==
    [][\A k \in CmpIds :
          (ComparisonSettles(k) /\ \E j \in CmpIds : j > k /\ cmps[j].st = "settled")
            => (analysis1' = analysis1 /\ analysis2' = analysis2)]_vars

\* what CompareMode renders of a failure: the error banner ({error && ...}),
\* or, inside the results block ({(analysis1 || analysis2) && ...}), the
\* placeholder 'Failed to analyze first / second compound' of a null analysis
CompareFailureVisible(err, a1, a2) ==
    \/ err # None
    \/ (a1 # None \/ a2 # None) /\ (a1 = None \/ a2 = None)

\* C27: whenever a comparison finishes and at least one of its two analyses
\* failed, the Compare tab shows a failure indication: its error banner or a
\* 'Failed to analyze first/second compound' placeholder, including when both
\* analyses fail.
FailedComparisonShown ==
    [][\A k \in CmpIds :
          (/\ ComparisonSettles(k)
           /\ cmps[k].live
           /\ (calls'[cmps[k].a].result = None \/ calls'[cmps[k].b].result = None))
            => CompareFailureVisible(cmpError', analysis1', analysis2')]_vars

\* no comparison is under way: none waits for its timer or for a request
NoComparisonUnderWay ==
    /\ \A k \in CmpIds : cmps[k].st \in {"none", "settled"}
    /\ \A c \in CallIds : ~Awaiting(c)

\* C28: running a comparison in the Compare tab leaves the Analyze tab's state
\* unchanged: App.analysis and App.error after the comparison equal their
\* values before it. Where nothing but comparisons is run, the values before
\* are the initial ones, null and null.
ComparisonLeavesAnalyzeState ==
    NoComparisonUnderWay => (analysis = None /\ error = None)

\* C29: a successful copy of field f sets copiedField = f; the timer of an
\* earlier copy never resets copiedField while a later copy's indicator is
\* still due (its timer is still set); when no timer is set any more
\* copiedField is null; a failed clipboard write leaves copiedField unchanged.
CopyIndicatorClearedByOwnTimer ==
    /\ [][\A i \in CopyIds :
            (copies[i].st = "writing" /\ copies'[i].st = "shown")
              => copiedField' = Some(copies[i].field)]_vars
    /\ [][(Len(timers') < Len(timers) /\ timers' # <<>>)
              => copiedField' = copiedField]_vars
    /\ [](timers = <<>> => copiedField = None)
    /\ [][\A i \in CopyIds :
            (copies[i].st = "writing" /\ copies'[i].st = "failed")
              => copiedField' = copiedField]_vars

\* C30: for every sequence of toggles, the value App last wrote to
\* localStorage['darkMode'] is the darkMode value App initialises with on the
\* next load, whatever the operating system's colour scheme is.
DarkModeRoundTrips ==
    [][Reload => BoolString(darkMode') = written[Len(written)]]_vars

====
